---- MODULE Spec2Model ----
(***************************************************************************)
(* Booking admission control of the Hanco rent-a-car backend.              *)
(*                                                                         *)
(* The document store holds vehicles, bookings, payments and the chat      *)
(* sessions of the booking assistant.  Requests are                        *)
(* handled by independent workers; every access to the store is one atomic *)
(* step and the local computation that follows a read belongs to the step  *)
(* of that read.                                                           *)
(***************************************************************************)
EXTENDS Integers, FiniteSets, Sequences, TLC

VARIABLES vehicles, bookings, payments, settings, sessions, pc, req, loc, res, calls, ov

vars == <<vehicles, bookings, payments, settings, sessions, pc, req, loc, res, calls, ov>>

storeVars == <<vehicles, bookings, payments, settings, sessions>>

(***************************************************************************)
(* Bounds                                                                  *)
(***************************************************************************)
MaxDay == 4

MaxCalls == 2

(***************************************************************************)
(* Calendar.  Days are numbered 0..MaxDay; Today is date.today().          *)
(***************************************************************************)
Days == 0..MaxDay

Today == 1

Procs == {"p1", "p2"}

Guests == {"g1", "g2"}

Vehicles == {"v1", "v2"}

VehicleIds == Vehicles \cup {"v9"}

BookingIds == {"b1", "b2"}

BookingKeys == BookingIds \cup {"b9"}

\* identifiers uuid4 hands out for documents written after start-up
FreshIds == {"b3", "b4"}

DocIds == BookingIds \cup FreshIds

VehicleStatuses == {"available", "rented", "maintenance", "inactive"}

BookingStatuses == {"pending", "confirmed", "active", "completed", "cancelled"}

BlockingStatuses == {"pending", "confirmed", "active"}

BookableVehicleStatuses == {"available", "rented"}

NoDoc == [exists |-> FALSE]

(***************************************************************************)
(* Stored dates.  create_booking and the chatbot store ISO strings, older  *)
(* documents hold native timestamps.                                       *)
(***************************************************************************)
isoformat(d) == [kind |-> "iso", day |-> d]

Timestamp(d) == [kind |-> "ts", day |-> d]

fromisoformat(x) == x.day

\* bookings.py check_vehicle_availability: str -> fromisoformat().date(),
\* timestamp -> .date()
PreCheckToDate(x) == IF x.kind = "iso" THEN fromisoformat(x) ELSE x.day

(***************************************************************************)
(* The three overlap tests.                                                *)
(***************************************************************************)
\* check_date_overlap with the second comparison made strict
check_date_overlap_mut(start1, end1, start2, end2) == start1 <= end2 /\ end1 > start2

\* vehicles.py check_date_overlap
check_date_overlap(start1, end1, start2, end2) == start1 <= end2 /\ end1 >= start2

\* bookings.py check_vehicle_availability, line 169
PreCheckOverlap(start_date, end_date, booking_start, booking_end) ==
    start_date <= booking_end /\ end_date >= booking_start

\* the in-transaction test with the two comparisons joined by "and"
TxnOverlap_mut(start_date, end_date, doc_start, doc_end) ==
    ~(end_date <= doc_start /\ start_date >= doc_end)

\* bookings.py create_booking_transaction, line 323
TxnOverlap(start_date, end_date, doc_start, doc_end) ==
    ~(end_date <= doc_start \/ start_date >= doc_end)

(***************************************************************************)
(* Documents                                                               *)
(***************************************************************************)
\* status is the field the REST handlers read and write; availability_status
\* is the field the seeding script writes and the chatbot filters on
VehicleDoc(st, rate) ==
    [exists |-> TRUE, status |-> st, base_daily_rate |-> rate,
     availability_status |-> "available"]

Ranges == {r \in Days \X Days : r[1] < r[2]}

BookingDoc(uid, gid, v, s, e, st, ps, price) ==
    [exists |-> TRUE, user_id |-> uid, guest_id |-> gid, vehicle_id |-> v,
     start_date |-> s, end_date |-> e, status |-> st, payment_status |-> ps,
     total_price |-> price]

\* a document id with nothing stored under it
NoBooking ==
    [exists |-> FALSE, user_id |-> "none", guest_id |-> "none", vehicle_id |-> "none",
     start_date |-> isoformat(0), end_date |-> isoformat(0), status |-> "none",
     payment_status |-> "none", total_price |-> 0]

(***************************************************************************)
(* Chat sessions (orchestrator.py).  A session document holds the state    *)
(* of the funnel and the context collected so far; a key that is missing   *)
(* from the context dict is modelled by the value "none" (NoDate, <<>>).   *)
(***************************************************************************)
SessionIds == {"s1"}

STATE_MACHINE ==
    [idle |-> "vehicle_type", vehicle_type |-> "selection", selection |-> "dates",
     dates |-> "pickup", pickup |-> "dropoff", dropoff |-> "insurance",
     insurance |-> "payment", payment |-> "quote", quote |-> "confirm",
     confirm |-> "completed", completed |-> "idle"]

ChatStates == DOMAIN STATE_MACHINE

NoDate == [kind |-> "none", day |-> 0]

EmptyContext ==
    [available_types |-> {}, vehicle_type |-> "none", available_vehicles |-> <<>>,
     vehicle_id |-> "none", daily_rate |-> 0,
     start_date |-> NoDate, end_date |-> NoDate, duration |-> 0,
     available_branches |-> <<>>, pickup_branch_id |-> "none",
     dropoff_branch_id |-> "none", insurance_selected |-> "none",
     payment_mode |-> "none", total_price |-> 0]

SessionDoc(g, st, ctx) == [exists |-> TRUE, guest_id |-> g, state |-> st, context |-> ctx]

NoSession == [exists |-> FALSE, guest_id |-> "none", state |-> "none", context |-> EmptyContext]

\* what the handlers make of the text of a message: a greeting, a question
\* for the list, a vehicle type, a number, a pair of dates, yes, no, a
\* payment mode
Msg(k, n, s, e) == [kind |-> k, n |-> n, start_date |-> s, end_date |-> e]

NullMsg == Msg("none", 0, 0, 0)

\* Ranges of the documents already in the store and of the requests
SeedRanges == {r \in Ranges : r[1] >= Today /\ r[2] = r[1] + 1}

RequestRanges == SeedRanges \cup {<<Today, Today + 2>>, <<Today + 1, Today + 1>>, <<Today - 1, Today>>}

\* Documents already in the store, both bookings of v1 owned by g1, dates as
\* ISO strings, in any lifecycle status: b1 written through the REST path
\* (owner under user_id, payment_status unpaid) for the first seed range, b2
\* written by the chatbot (owner under guest_id, payment_status pending) for
\* any seed range.  A seed past pending carries payment_status paid, the value
\* confirm_booking and mark_booking_paid write together with status confirmed.
SeedDocs(b) ==
    {BookingDoc(IF b = "b1" THEN "g1" ELSE "none",
                IF b = "b1" THEN "none" ELSE "g1",
                "v1", isoformat(r[1]), isoformat(r[2]), st,
                IF st \in {"confirmed", "active", "completed"} THEN "paid"
                ELSE IF b = "b1" THEN "unpaid" ELSE "pending",
                100 * (r[2] - r[1])) :
       r \in (IF b = "b1" THEN {<<Today, Today + 1>>} ELSE SeedRanges),
       st \in BookingStatuses}

Blocking(store, v) ==
    {b \in DocIds : store[b].exists /\ store[b].vehicle_id = v
                        /\ store[b].status \in BlockingStatuses}

\* no two blocking bookings of one vehicle overlap (inclusive rule)
NoDoubleBooking(store) ==
    \A b1 \in DocIds, b2 \in DocIds :
       (b1 # b2 /\ store[b1].exists /\ store[b2].exists
        /\ store[b1].vehicle_id = store[b2].vehicle_id
        /\ store[b1].status \in BlockingStatuses
        /\ store[b2].status \in BlockingStatuses)
       => ~check_date_overlap(store[b1].start_date.day, store[b1].end_date.day,
                              store[b2].start_date.day, store[b2].end_date.day)

NullReq == [op |-> "none", vehicle_id |-> "none", start_date |-> 0, end_date |-> 0,
            booking_id |-> "none", guest_id |-> "none", card_ok |-> FALSE,
            session_id |-> "none", message |-> NullMsg, status |-> "none",
            hard_delete |-> FALSE]

NullLoc == [note |-> "none", price |-> 0,
            state |-> "none", context |-> EmptyContext,
            next_state |-> "none", next_context |-> EmptyContext]

NullRes == [code |-> 0, detail |-> "none", count |-> 0]

NullOv == [s1 |-> 0, e1 |-> 0, s2 |-> 0, e2 |-> 0,
           pre |-> "none", txn |-> "none", std |-> "none",
           pre_swapped |-> "none", txn_swapped |-> "none", std_swapped |-> "none"]

Response(code, detail, count) == [code |-> code, detail |-> detail, count |-> count]

(***************************************************************************)
(* Initial state                                                           *)
(***************************************************************************)
\* v1 is bookable and v2 is gated; between them the four statuses occur.
\* v2 was seeded like v1 in the first case and created through POST /vehicles,
\* which writes no availability_status (vehicles.py 204-221), in the second
InitVehicles ==
    {[v1 |-> VehicleDoc("available", 100), v2 |-> VehicleDoc("maintenance", 100)],
     [v1 |-> VehicleDoc("rented", 100),
      v2 |-> [VehicleDoc("inactive", 100) EXCEPT !.availability_status = "none"]]}

\* the stores that hold one document of docs1 under b1 and one of docs2
\* under b2, nothing under the ids still to be generated, and no double
\* booking
InitBookings(docs1, docs2) ==
    {f \in {[b \in DocIds |-> IF b = "b1" THEN d1 ELSE IF b = "b2" THEN d2 ELSE NoBooking] :
               d1 \in docs1, d2 \in docs2} :
        NoDoubleBooking(f)}

\* the cancelled booking of today among the documents of b
CancelledDocs(b) ==
    {d \in SeedDocs(b) : d.status = "cancelled" /\ d.start_date = isoformat(Today)}

InitStore ==
    /\ vehicles \in InitVehicles
    /\ bookings \in InitBookings(SeedDocs("b1"), SeedDocs("b2"))
    /\ payments = [b \in DocIds |-> 0]
    /\ settings \in [ENABLE_PAYMENT_SIMULATOR : BOOLEAN]
    /\ sessions = [s \in SessionIds |-> NoSession]

InitProcs ==
    /\ pc = [p \in Procs |-> "idle"]
    /\ req = [p \in Procs |-> NullReq]
    /\ loc = [p \in Procs |-> NullLoc]
    /\ res = [p \in Procs |-> NullRes]
    /\ calls = 0

Init == InitStore /\ InitProcs /\ ov = NullOv

(***************************************************************************)
(* Helpers for the handlers                                                *)
(***************************************************************************)
Finish(p, r) ==
    /\ pc' = [pc EXCEPT ![p] = "done"]
    /\ res' = [res EXCEPT ![p] = r]

Goto(p, label) ==
    /\ pc' = [pc EXCEPT ![p] = label]
    /\ res' = res

Accept(p, r) ==
    /\ pc[p] = "idle"
    /\ calls < MaxCalls
    /\ calls' = calls + 1
    /\ req' = [req EXCEPT ![p] = r]

VehicleOf(v) == IF v \in Vehicles THEN vehicles[v] ELSE NoDoc

BookingOf(b) == IF b \in DocIds THEN bookings[b] ELSE NoBooking

\* schemas/booking.py BookingBase validators, then the handler's own checks
validate_dates(s, e) == e > s /\ s >= Today

(***************************************************************************)
(* create_booking (bookings.py 236-354)                                    *)
(***************************************************************************)
\* create_booking that leaves the dates to the checks made after the reads
create_booking_mut(p, v, s, e, g) ==
    /\ Accept(p, [NullReq EXCEPT !.op = "create_booking", !.vehicle_id = v,
                                 !.start_date = s, !.end_date = e, !.guest_id = g])
    /\ Goto(p, "cb_check_vehicle")
    /\ UNCHANGED <<storeVars, loc, ov>>

\* request arrives; date validation happens before any access to the store
create_booking(p, v, s, e, g) ==
    /\ Accept(p, [NullReq EXCEPT !.op = "create_booking", !.vehicle_id = v,
                                 !.start_date = s, !.end_date = e, !.guest_id = g])
    /\ IF validate_dates(s, e)
       THEN Goto(p, "cb_check_vehicle")
       ELSE Finish(p, Response(422, "Invalid dates", 0))
    /\ UNCHANGED <<storeVars, loc, ov>>

\* check_vehicle_status with a gate that lets a vehicle in maintenance through
check_vehicle_status_mut(p) ==
    /\ pc[p] = "cb_check_vehicle"
    /\ LET vehicle_doc == VehicleOf(req[p].vehicle_id) IN
         IF ~vehicle_doc.exists
         THEN /\ Finish(p, Response(404, "Vehicle not found", 0))
              /\ loc' = loc
         ELSE IF vehicle_doc.status \notin BookableVehicleStatuses \cup {"maintenance"}
         THEN /\ Finish(p, Response(409, "Vehicle not available for selected dates", 0))
              /\ loc' = [loc EXCEPT ![p].note = "vehicle_status"]
         ELSE /\ Goto(p, "cb_check_bookings")
              /\ loc' = loc
    /\ UNCHANGED <<storeVars, req, calls, ov>>

\* check_vehicle_availability, lines 128-141: the vehicle read and the gate
check_vehicle_status(p) ==
    /\ pc[p] = "cb_check_vehicle"
    /\ LET vehicle_doc == VehicleOf(req[p].vehicle_id) IN
         IF ~vehicle_doc.exists
         THEN /\ Finish(p, Response(404, "Vehicle not found", 0))
              /\ loc' = loc
         ELSE IF vehicle_doc.status \notin BookableVehicleStatuses
         THEN \* return False, []  ->  409 in create_booking, lines 272-276
              /\ Finish(p, Response(409, "Vehicle not available for selected dates", 0))
              /\ loc' = [loc EXCEPT ![p].note = "vehicle_status"]
         ELSE /\ Goto(p, "cb_check_bookings")
              /\ loc' = loc
    /\ UNCHANGED <<storeVars, req, calls, ov>>

\* the pre-check scan that leaves pending bookings out of the query
conflicting_bookings_mut(v, s, e) ==
    {b \in Blocking(bookings, v) :
        /\ bookings[b].status # "pending"
        /\ PreCheckOverlap(s, e, PreCheckToDate(bookings[b].start_date),
                                 PreCheckToDate(bookings[b].end_date))}

\* the conflict list of the pre-check, lines 143-176
conflicting_bookings(v, s, e) ==
    {b \in Blocking(bookings, v) :
        PreCheckOverlap(s, e, PreCheckToDate(bookings[b].start_date),
                              PreCheckToDate(bookings[b].end_date))}

check_vehicle_availability(p) ==
    /\ pc[p] = "cb_check_bookings"
    /\ LET conflicts == conflicting_bookings(req[p].vehicle_id, req[p].start_date,
                                             req[p].end_date) IN
         IF conflicts # {}
         THEN /\ Finish(p, Response(409, "Vehicle not available for selected dates",
                                    Cardinality(conflicts)))
              /\ loc' = [loc EXCEPT ![p].note = "date_conflict"]
         ELSE /\ Goto(p, "cb_price")
              /\ loc' = loc
    /\ UNCHANGED <<storeVars, req, calls, ov>>

\* calculate_booking_price with the document written under a new id before
\* the failing statement is reached
calculate_booking_price_mut(p) ==
    /\ pc[p] = "cb_price"
    /\ LET vehicle_doc == VehicleOf(req[p].vehicle_id)
           num_days == req[p].end_date - req[p].start_date
           free == {b \in FreshIds : ~bookings[b].exists} IN
         IF ~vehicle_doc.exists
         THEN /\ Finish(p, Response(404, "Vehicle not found", 0))
              /\ UNCHANGED <<loc, bookings>>
         ELSE IF num_days <= 0
         THEN /\ Finish(p, Response(400, "Invalid date range", 0))
              /\ UNCHANGED <<loc, bookings>>
         ELSE /\ Finish(p, Response(500, "Failed to create booking", 0))
              /\ loc' = [loc EXCEPT ![p].price = vehicle_doc.base_daily_rate * num_days,
                                    ![p].note = "AttributeError"]
              /\ IF free = {}
                 THEN bookings' = bookings
                 ELSE bookings' = [bookings EXCEPT ![CHOOSE b \in free : TRUE] =
                                     BookingDoc(req[p].guest_id, "none", req[p].vehicle_id,
                                                isoformat(req[p].start_date),
                                                isoformat(req[p].end_date),
                                                "pending", "unpaid",
                                                vehicle_doc.base_daily_rate * num_days)]
    /\ UNCHANGED <<vehicles, payments, settings, sessions, req, calls, ov>>

\* calculate_booking_price (188-230), then the booking data of lines 289-302:
\* BookingCreate has no attribute pickup_location, so line 298 raises
\* AttributeError, which the handler turns into 500 (lines 349-354) before the
\* transaction of lines 306-339 is ever started.
calculate_booking_price(p) ==
    /\ pc[p] = "cb_price"
    /\ LET vehicle_doc == VehicleOf(req[p].vehicle_id)
           num_days == req[p].end_date - req[p].start_date IN
         IF ~vehicle_doc.exists
         THEN /\ Finish(p, Response(404, "Vehicle not found", 0))
              /\ loc' = loc
         ELSE IF num_days <= 0
         THEN /\ Finish(p, Response(400, "Invalid date range", 0))
              /\ loc' = loc
         ELSE /\ Finish(p, Response(500, "Failed to create booking", 0))
              /\ loc' = [loc EXCEPT ![p].price = vehicle_doc.base_daily_rate * num_days,
                                    ![p].note = "AttributeError"]
    /\ UNCHANGED <<storeVars, req, calls, ov>>

(***************************************************************************)
(* get_booking (bookings.py 511-548)                                       *)
(***************************************************************************)
\* line 536 passes the undefined name current_user to
\* verify_booking_ownership: NameError, caught at line 543 and answered with
\* 500, whoever asks for an existing booking.
get_booking(p, b, g) ==
    /\ Accept(p, [NullReq EXCEPT !.op = "get_booking", !.booking_id = b, !.guest_id = g])
    /\ IF ~BookingOf(b).exists
       THEN /\ Finish(p, Response(404, "Booking not found", 0))
            /\ loc' = loc
       ELSE /\ Finish(p, Response(500, "Failed to retrieve booking", 0))
            /\ loc' = [loc EXCEPT ![p].note = "NameError"]
    /\ UNCHANGED <<storeVars, ov>>

(***************************************************************************)
(* cancel_booking (bookings.py 552-607)                                    *)
(***************************************************************************)
\* cancel_booking that skips the ownership check of line 576 and goes on to
\* the status check and the update of lines 578-590
cancel_booking_mut(p, b, g) ==
    /\ Accept(p, [NullReq EXCEPT !.op = "cancel_booking", !.booking_id = b, !.guest_id = g])
    /\ IF ~BookingOf(b).exists
       THEN /\ Finish(p, Response(404, "Booking not found", 0))
            /\ bookings' = bookings
       ELSE IF BookingOf(b).status \in {"cancelled", "completed"}
       THEN /\ Finish(p, Response(400, "Cannot cancel booking", 0))
            /\ bookings' = bookings
       ELSE /\ Finish(p, Response(200, "Booking cancelled successfully", 0))
            /\ bookings' = [bookings EXCEPT ![b].status = "cancelled"]
    /\ UNCHANGED <<vehicles, payments, settings, sessions, loc, ov>>

\* line 576 passes the undefined name current_user: NameError, caught at line
\* 602 and answered with 500; lines 578-590 are never reached.
cancel_booking(p, b, g) ==
    /\ Accept(p, [NullReq EXCEPT !.op = "cancel_booking", !.booking_id = b, !.guest_id = g])
    /\ IF ~BookingOf(b).exists
       THEN /\ Finish(p, Response(404, "Booking not found", 0))
            /\ loc' = loc
       ELSE /\ Finish(p, Response(500, "Failed to cancel booking", 0))
            /\ loc' = [loc EXCEPT ![p].note = "NameError"]
    /\ UNCHANGED <<storeVars, ov>>

(***************************************************************************)
(* confirm_booking (bookings.py 611-673)                                   *)
(***************************************************************************)
\* confirm_booking without the status checks of lines 643-651
confirm_booking_mut(p, b, g) ==
    /\ Accept(p, [NullReq EXCEPT !.op = "confirm_booking", !.booking_id = b, !.guest_id = g])
    /\ LET booking_data == BookingOf(b) IN
         IF ~booking_data.exists
         THEN /\ Finish(p, Response(404, "Booking not found", 0))
              /\ loc' = loc
         ELSE IF booking_data.user_id # g
         THEN /\ Finish(p, Response(500, "Failed to confirm booking", 0))
              /\ loc' = [loc EXCEPT ![p].note = "NameError"]
         ELSE /\ Goto(p, "cf_update")
              /\ loc' = loc
    /\ UNCHANGED <<storeVars, ov>>

\* lines 623-651: read, authorisation, status checks
confirm_booking(p, b, g) ==
    /\ Accept(p, [NullReq EXCEPT !.op = "confirm_booking", !.booking_id = b, !.guest_id = g])
    /\ LET booking_data == BookingOf(b) IN
         IF ~booking_data.exists
         THEN /\ Finish(p, Response(404, "Booking not found", 0))
              /\ loc' = loc
         ELSE IF booking_data.user_id # g
         THEN \* the second operand of line 635 reads the undefined current_user
              /\ Finish(p, Response(500, "Failed to confirm booking", 0))
              /\ loc' = [loc EXCEPT ![p].note = "NameError"]
         ELSE IF booking_data.status = "cancelled"
         THEN /\ Finish(p, Response(400, "Cannot confirm a cancelled booking", 0))
              /\ loc' = loc
         ELSE IF booking_data.status = "confirmed"
         THEN /\ Finish(p, Response(200, "confirmed", 0))
              /\ loc' = [loc EXCEPT ![p].note = "already_confirmed"]
         ELSE /\ Goto(p, "cf_update")
              /\ loc' = loc
    /\ UNCHANGED <<storeVars, ov>>

\* confirm_update that writes the status and leaves payment_status alone
confirm_update_mut(p) ==
    /\ pc[p] = "cf_update"
    /\ bookings' = [bookings EXCEPT ![req[p].booking_id].status = "confirmed"]
    /\ Goto(p, "cf_fetch")
    /\ UNCHANGED <<vehicles, payments, settings, sessions, req, loc, calls, ov>>

\* lines 654-658
confirm_update(p) ==
    /\ pc[p] = "cf_update"
    /\ bookings' = [bookings EXCEPT ![req[p].booking_id].status = "confirmed",
                                    ![req[p].booking_id].payment_status = "paid"]
    /\ Goto(p, "cf_fetch")
    /\ UNCHANGED <<vehicles, payments, settings, sessions, req, loc, calls, ov>>

\* lines 663-664
confirm_fetch(p) ==
    /\ pc[p] = "cf_fetch"
    /\ Finish(p, Response(200, bookings[req[p].booking_id].status, 0))
    /\ UNCHANGED <<storeVars, req, loc, calls, ov>>

(***************************************************************************)
(* pay_for_booking (payments.py 67-214) and mark_booking_paid              *)
(* (simulator.py 213-255)                                                  *)
(***************************************************************************)
\* lines 92-165: gate, read, ownership, status checks, simulated payment
pay_for_booking(p, b, g, card_ok) ==
    /\ Accept(p, [NullReq EXCEPT !.op = "pay_for_booking", !.booking_id = b,
                                 !.guest_id = g, !.card_ok = card_ok])
    /\ LET booking_data == BookingOf(b) IN
         IF ~settings.ENABLE_PAYMENT_SIMULATOR
         THEN Finish(p, Response(501, "Payment processing is not available", 0)) /\ loc' = loc
         ELSE IF ~booking_data.exists
         THEN Finish(p, Response(404, "Booking not found", 0)) /\ loc' = loc
         ELSE IF booking_data.guest_id # g
         THEN Finish(p, Response(404, "Booking not found", 0)) /\ loc' = loc
         ELSE IF booking_data.payment_status = "paid"
         THEN Finish(p, Response(400, "Booking has already been paid", 0)) /\ loc' = loc
         ELSE IF booking_data.status = "cancelled"
         THEN Finish(p, Response(400, "Cannot pay for cancelled booking", 0)) /\ loc' = loc
         ELSE IF booking_data.total_price <= 0
         THEN Finish(p, Response(400, "Invalid booking total price", 0)) /\ loc' = loc
         ELSE IF ~card_ok
         THEN Finish(p, Response(400, "Payment validation failed", 0)) /\ loc' = loc
         ELSE /\ Goto(p, "pay_mark_get")
              /\ loc' = [loc EXCEPT ![p].price = booking_data.total_price]
    /\ UNCHANGED <<storeVars, ov>>

\* simulator.py 233-238
mark_booking_paid_get(p) ==
    /\ pc[p] = "pay_mark_get"
    /\ IF BookingOf(req[p].booking_id).exists
       THEN Goto(p, "pay_mark_update")
       ELSE Finish(p, Response(500, "Payment succeeded but booking update failed", 0))
    /\ UNCHANGED <<storeVars, req, loc, calls, ov>>

\* mark_booking_paid that replaces the document (set) instead of updating
\* the two fields
mark_booking_paid_mut(p) ==
    /\ pc[p] = "pay_mark_update"
    /\ bookings' = [bookings EXCEPT ![req[p].booking_id] =
                       [NoBooking EXCEPT !.exists = TRUE, !.status = "confirmed",
                                         !.payment_status = "paid"]]
    /\ Goto(p, "pay_store")
    /\ UNCHANGED <<vehicles, payments, settings, sessions, req, loc, calls, ov>>

\* simulator.py 243-251
mark_booking_paid(p) ==
    /\ pc[p] = "pay_mark_update"
    /\ bookings' = [bookings EXCEPT ![req[p].booking_id].status = "confirmed",
                                    ![req[p].booking_id].payment_status = "paid"]
    /\ Goto(p, "pay_store")
    /\ UNCHANGED <<vehicles, payments, settings, sessions, req, loc, calls, ov>>

\* payments.py 178-204
store_payment(p) ==
    /\ pc[p] = "pay_store"
    /\ payments' = [payments EXCEPT ![req[p].booking_id] = @ + 1]
    /\ Finish(p, Response(200, "success", 0))
    /\ UNCHANGED <<vehicles, bookings, settings, sessions, req, loc, calls, ov>>

(***************************************************************************)
(* GET /vehicles/{id}/availability (vehicles.py 374-474)                   *)
(***************************************************************************)
\* vehicles.py 440-443: only timestamps are converted, an ISO string stays a
\* string and the comparison with a date raises TypeError
StandaloneComparable(x) == x.kind = "ts"

\* lines 391-423: validation, vehicle read, status gate
vehicle_availability(p, v, s, e) ==
    /\ Accept(p, [NullReq EXCEPT !.op = "vehicle_availability", !.vehicle_id = v,
                                 !.start_date = s, !.end_date = e])
    /\ LET vehicle_doc == VehicleOf(v) IN
         IF ~validate_dates(s, e)
         THEN Finish(p, Response(400, "Invalid dates", 0)) /\ loc' = loc
         ELSE IF ~vehicle_doc.exists
         THEN Finish(p, Response(404, "Vehicle not found", 0)) /\ loc' = loc
         ELSE IF vehicle_doc.status \notin BookableVehicleStatuses
         THEN /\ Finish(p, Response(200, "unavailable", 0))
              /\ loc' = [loc EXCEPT ![p].note = "vehicle_status"]
         ELSE Goto(p, "av_bookings") /\ loc' = loc
    /\ UNCHANGED <<storeVars, ov>>

\* vehicle_availability_bookings with the flag fixed before the loop over the
\* bookings
vehicle_availability_bookings_mut(p) ==
    /\ pc[p] = "av_bookings"
    /\ LET docs == Blocking(bookings, req[p].vehicle_id)
           conflicts == {b \in docs :
                           check_date_overlap(req[p].start_date, req[p].end_date,
                                              bookings[b].start_date.day,
                                              bookings[b].end_date.day)} IN
         IF \E b \in docs : ~StandaloneComparable(bookings[b].start_date)
                            \/ ~StandaloneComparable(bookings[b].end_date)
         THEN /\ Finish(p, Response(500, "Failed to check availability", 0))
              /\ loc' = [loc EXCEPT ![p].note = "TypeError"]
         ELSE /\ Finish(p, Response(200, "available", Cardinality(conflicts)))
              /\ loc' = loc
    /\ UNCHANGED <<storeVars, req, calls, ov>>

\* lines 425-465
vehicle_availability_bookings(p) ==
    /\ pc[p] = "av_bookings"
    /\ LET docs == Blocking(bookings, req[p].vehicle_id)
           conflicts == {b \in docs :
                           check_date_overlap(req[p].start_date, req[p].end_date,
                                              bookings[b].start_date.day,
                                              bookings[b].end_date.day)} IN
         IF \E b \in docs : ~StandaloneComparable(bookings[b].start_date)
                            \/ ~StandaloneComparable(bookings[b].end_date)
         THEN /\ Finish(p, Response(500, "Failed to check availability", 0))
              /\ loc' = [loc EXCEPT ![p].note = "TypeError"]
         ELSE /\ Finish(p, Response(200, IF conflicts = {} THEN "available" ELSE "unavailable",
                                    Cardinality(conflicts)))
              /\ loc' = loc
    /\ UNCHANGED <<storeVars, req, calls, ov>>

(***************************************************************************)
(* The response is delivered and the worker takes the next request.        *)
(***************************************************************************)
Return(p) ==
    /\ pc[p] = "done"
    /\ pc' = [pc EXCEPT ![p] = "idle"]
    /\ req' = [req EXCEPT ![p] = NullReq]
    /\ loc' = [loc EXCEPT ![p] = NullLoc]
    /\ res' = [res EXCEPT ![p] = NullRes]
    /\ UNCHANGED <<storeVars, calls, ov>>

(***************************************************************************)
(* update_vehicle and delete_vehicle (vehicles.py 241-371)                 *)
(***************************************************************************)
\* a vehicle id whose document was deleted
NoVehicle ==
    [exists |-> FALSE, status |-> "none", base_daily_rate |-> 0,
     availability_status |-> "none"]

\* the statuses a VehicleUpdate can carry; "none" is a body without status
UpdateStatuses == VehicleStatuses \cup {"none"}

\* lines 255-265: the existence check, then "No fields to update" (291-295)
update_vehicle(p, v, st) ==
    /\ Accept(p, [NullReq EXCEPT !.op = "update_vehicle", !.vehicle_id = v, !.status = st])
    /\ IF ~VehicleOf(v).exists
       THEN Finish(p, Response(404, "Vehicle not found", 0))
       ELSE IF st = "none"
       THEN Finish(p, Response(400, "No fields to update", 0))
       ELSE Goto(p, "uv_update")
    /\ UNCHANGED <<storeVars, loc, ov>>

\* line 301: doc_ref.update, which fails on a document deleted meanwhile
update_vehicle_update(p) ==
    /\ pc[p] = "uv_update"
    /\ IF ~vehicles[req[p].vehicle_id].exists
       THEN /\ Finish(p, Response(500, "Failed to update vehicle", 0))
            /\ vehicles' = vehicles
       ELSE /\ Goto(p, "uv_fetch")
            /\ vehicles' = [vehicles EXCEPT ![req[p].vehicle_id].status = req[p].status]
    /\ UNCHANGED <<bookings, payments, settings, sessions, req, loc, calls, ov>>

\* lines 305-309: the document is read again for the response
update_vehicle_fetch(p) ==
    /\ pc[p] = "uv_fetch"
    /\ IF ~vehicles[req[p].vehicle_id].exists
       THEN Finish(p, Response(500, "Failed to update vehicle", 0))
       ELSE Finish(p, Response(200, vehicles[req[p].vehicle_id].status, 0))
    /\ UNCHANGED <<storeVars, req, loc, calls, ov>>

\* lines 332-340: the existence check
delete_vehicle(p, v, hard_delete) ==
    /\ Accept(p, [NullReq EXCEPT !.op = "delete_vehicle", !.vehicle_id = v,
                                 !.hard_delete = hard_delete])
    /\ IF ~VehicleOf(v).exists
       THEN Finish(p, Response(404, "Vehicle not found", 0))
       ELSE Goto(p, "dv_write")
    /\ UNCHANGED <<storeVars, loc, ov>>

\* lines 342-361: the document is deleted, or its status set to inactive
delete_vehicle_write(p) ==
    /\ pc[p] = "dv_write"
    /\ IF req[p].hard_delete
       THEN /\ vehicles' = [vehicles EXCEPT ![req[p].vehicle_id] = NoVehicle]
            /\ Finish(p, Response(200, "permanently deleted", 0))
       ELSE IF ~vehicles[req[p].vehicle_id].exists
       THEN /\ vehicles' = vehicles
            /\ Finish(p, Response(500, "Failed to delete vehicle", 0))
       ELSE /\ vehicles' = [vehicles EXCEPT ![req[p].vehicle_id].status = "inactive"]
            /\ Finish(p, Response(200, "deactivated (soft delete)", 0))
    /\ UNCHANGED <<bookings, payments, settings, sessions, req, loc, calls, ov>>

(***************************************************************************)
(* Chatbot (services/chatbot/orchestrator.py).  One message is handled in  *)
(* three steps: the session read of handle_message, the handler of the     *)
(* state read (with its own reads and, on confirmation, the booking        *)
(* write), and the session update.  The messages collection that           *)
(* _store_message appends to is read by nothing modelled here.             *)
(***************************************************************************)
\* the order in which a query streams the vehicle documents
VehicleOrder == <<"v1", "v2">>

\* every vehicle document of the store is in one category
category(v) == "sedan"

\* the active branches offered for pickup and dropoff
ActiveBranches == <<"br1">>

\* the pairs of dates a message can carry: two that are accepted, one that
\* ends on its first day and one that starts before today
ChatRanges == {<<Today, Today + 1>>, <<Today + 2, Today + 3>>,
               <<Today + 1, Today + 1>>, <<Today - 1, Today>>}

Messages ==
    {Msg(k, 0, 0, 0) : k \in {"hi", "what", "type_sedan", "type_luxury", "yes", "no", "cash"}}
    \cup {Msg("number", n, 0, 0) : n \in 1..2}
    \cup {Msg("dates", 0, r[1], r[2]) : r \in ChatRanges}

\* what a handler returns: next_state, context, and whether it wrote a booking
Reply(st, ctx, wrote) == [next_state |-> st, context |-> ctx, booking |-> wrote]

\* the vehicles a chatbot query lists: availability_status == 'available'
ListedVehicles(type) ==
    SelectSeq(VehicleOrder,
              LAMBDA v : /\ vehicles[v].exists
                         /\ vehicles[v].availability_status = "available"
                         /\ category(v) = type)

_get_available_vehicle_types ==
    {category(v) : v \in {w \in Vehicles : /\ vehicles[w].exists
                                           /\ vehicles[w].availability_status = "available"}}

_handle_idle(m, context) ==
    LET available_types == _get_available_vehicle_types IN
      IF available_types = {}
      THEN Reply("idle", EmptyContext, FALSE)
      ELSE Reply("vehicle_type", [EmptyContext EXCEPT !.available_types = available_types], FALSE)

_handle_vehicle_type(m, context) ==
    LET available_types == IF context.available_types = {}
                           THEN _get_available_vehicle_types
                           ELSE context.available_types
        selected_type == IF m.kind = "type_sedan" THEN "sedan"
                         ELSE IF m.kind = "type_luxury" THEN "luxury" ELSE "none"
        found == ListedVehicles(selected_type)
        reprompt == Reply("vehicle_type",
                          [EmptyContext EXCEPT !.available_types = available_types], FALSE) IN
      IF m.kind = "what"
      THEN IF available_types = {} THEN Reply("idle", EmptyContext, FALSE) ELSE reprompt
      ELSE IF selected_type = "none" THEN reprompt
      ELSE IF found = <<>> THEN reprompt
      ELSE Reply("selection",
                 [context EXCEPT !.vehicle_type = selected_type,
                                 !.available_vehicles =
                                     [i \in 1..Len(found) |->
                                        [id |-> found[i],
                                         daily_rate |-> vehicles[found[i]].base_daily_rate]]],
                 FALSE)

_handle_selection(m, context) ==
    LET found == context.available_vehicles IN
      IF found = <<>>
      THEN Reply("vehicle_type", EmptyContext, FALSE)
      ELSE IF m.kind = "number" /\ m.n >= 1 /\ m.n <= Len(found)
      THEN Reply("dates", [context EXCEPT !.vehicle_id = found[m.n].id,
                                          !.daily_rate = found[m.n].daily_rate], FALSE)
      ELSE Reply("selection", context, FALSE)

\* no availability check: the dates are parsed, compared with today and with
\* each other, and stored as ISO strings
_handle_dates(m, context) ==
    IF m.kind # "dates" THEN Reply("dates", context, FALSE)
    ELSE IF m.start_date < Today THEN Reply("dates", context, FALSE)
    ELSE IF m.end_date <= m.start_date THEN Reply("dates", context, FALSE)
    ELSE Reply("pickup", [context EXCEPT !.start_date = isoformat(m.start_date),
                                         !.end_date = isoformat(m.end_date),
                                         !.duration = m.end_date - m.start_date,
                                         !.available_branches = ActiveBranches], FALSE)

_handle_pickup(m, context) ==
    LET branches == context.available_branches IN
      IF m.kind = "number" /\ m.n >= 1 /\ m.n <= Len(branches)
      THEN Reply("dropoff", [context EXCEPT !.pickup_branch_id = branches[m.n]], FALSE)
      ELSE Reply("pickup", context, FALSE)

_handle_dropoff(m, context) ==
    LET branches == context.available_branches IN
      IF m.kind = "number" /\ m.n >= 1 /\ m.n <= Len(branches)
      THEN Reply("insurance", [context EXCEPT !.dropoff_branch_id = branches[m.n]], FALSE)
      ELSE Reply("dropoff", context, FALSE)

_handle_insurance(m, context) ==
    IF m.kind = "yes" THEN Reply("payment", [context EXCEPT !.insurance_selected = "true"], FALSE)
    ELSE IF m.kind = "no" THEN Reply("payment", [context EXCEPT !.insurance_selected = "false"], FALSE)
    ELSE Reply("insurance", context, FALSE)

\* lines 481-539: the quote is computed here and the next state is
\* STATE_CONFIRM; STATE_QUOTE is returned by no handler
_handle_payment(m, context) ==
    IF m.kind # "cash" THEN Reply("payment", context, FALSE)
    ELSE LET subtotal == context.daily_rate * context.duration
             insurance_cost == IF context.insurance_selected = "true"
                               THEN (subtotal * 15) \div 100 ELSE 0 IN
           Reply("confirm", [context EXCEPT !.payment_mode = "cash",
                                            !.total_price = subtotal + insurance_cost], FALSE)

_handle_quote(m, context) == _handle_payment(m, context)

\* the keys line 552-571 reads with context[...]
HasBookingKeys(context) ==
    /\ context.vehicle_id # "none"
    /\ context.start_date # NoDate
    /\ context.end_date # NoDate
    /\ context.pickup_branch_id # "none"
    /\ context.dropoff_branch_id # "none"

\* lines 545-619: an affirmative message writes the booking, a missing key
\* raises KeyError, which the handler answers with a reset to idle
_handle_confirm(m, context) ==
    IF m.kind = "yes"
    THEN IF HasBookingKeys(context)
         THEN Reply("completed", EmptyContext, TRUE)
         ELSE Reply("idle", EmptyContext, FALSE)
    ELSE IF m.kind = "no" THEN Reply("idle", EmptyContext, FALSE)
    ELSE Reply("confirm", context, FALSE)

\* the dispatch of lines 88-118
Dispatch(current_state, m, context) ==
    CASE current_state = "idle" -> _handle_idle(m, context)
      [] current_state = "vehicle_type" -> _handle_vehicle_type(m, context)
      [] current_state = "selection" -> _handle_selection(m, context)
      [] current_state = "dates" -> _handle_dates(m, context)
      [] current_state = "pickup" -> _handle_pickup(m, context)
      [] current_state = "dropoff" -> _handle_dropoff(m, context)
      [] current_state = "insurance" -> _handle_insurance(m, context)
      [] current_state = "payment" -> _handle_payment(m, context)
      [] current_state = "quote" -> _handle_quote(m, context)
      [] current_state = "confirm" -> _handle_confirm(m, context)
      [] OTHER -> Reply("vehicle_type", EmptyContext, FALSE)

\* the booking document of lines 552-569: the owner under guest_id, status
\* pending, payment_status pending
ChatBookingDoc(g, context) ==
    BookingDoc("none", g, context.vehicle_id, context.start_date, context.end_date,
               "pending", "pending", context.total_price)

\* handle_message, lines 80-86: _get_or_create_session
handle_message(p, m, s, g) ==
    /\ Accept(p, [NullReq EXCEPT !.op = "handle_message", !.session_id = s,
                                 !.guest_id = g, !.message = m])
    /\ Goto(p, "chat_handle")
    /\ IF sessions[s].exists
       THEN /\ loc' = [loc EXCEPT ![p].state = sessions[s].state,
                                  ![p].context = sessions[s].context]
            /\ sessions' = sessions
       ELSE /\ loc' = [loc EXCEPT ![p].state = "idle", ![p].context = EmptyContext]
            /\ sessions' = [sessions EXCEPT ![s] = SessionDoc(g, "idle", EmptyContext)]
    /\ UNCHANGED <<vehicles, bookings, payments, settings, ov>>

\* the handler of the state that was read; the booking written by
\* _handle_confirm goes under a new uuid4
chat_handle(p) ==
    /\ pc[p] = "chat_handle"
    /\ LET response == Dispatch(loc[p].state, req[p].message, loc[p].context)
           free == {b \in FreshIds : ~bookings[b].exists} IN
         /\ response.booking => free # {}
         /\ bookings' = IF response.booking
                        THEN [bookings EXCEPT ![CHOOSE b \in free : TRUE] =
                                 ChatBookingDoc(req[p].guest_id, loc[p].context)]
                        ELSE bookings
         /\ loc' = [loc EXCEPT ![p].next_state = response.next_state,
                               ![p].next_context = response.context,
                               ![p].note = IF response.booking THEN "booking" ELSE "none"]
    /\ Goto(p, "chat_update")
    /\ UNCHANGED <<vehicles, payments, settings, sessions, req, calls, ov>>

\* _update_session, lines 684-700, and the reply
_update_session(p) ==
    /\ pc[p] = "chat_update"
    /\ sessions' = [sessions EXCEPT ![req[p].session_id].state = loc[p].next_state,
                                    ![req[p].session_id].context = loc[p].next_context]
    /\ Finish(p, Response(200, loc[p].next_state, 0))
    /\ UNCHANGED <<vehicles, bookings, payments, settings, req, loc, calls, ov>>

\* the four booking operations
Step(p) ==
    \/ \E v \in VehicleIds, r \in RequestRanges : create_booking(p, v, r[1], r[2], "g1")
    \/ check_vehicle_status(p)
    \/ check_vehicle_availability(p)
    \/ calculate_booking_price(p)
    \/ \E b \in BookingKeys, g \in Guests : cancel_booking(p, b, g)
    \/ \E b \in BookingKeys, g \in Guests : confirm_booking(p, b, g)
    \/ confirm_update(p)
    \/ confirm_fetch(p)
    \/ \E b \in BookingKeys, g \in Guests, card_ok \in BOOLEAN : pay_for_booking(p, b, g, card_ok)
    \/ mark_booking_paid_get(p)
    \/ mark_booking_paid(p)
    \/ store_payment(p)
    \/ Return(p)

Next == \E p \in Procs : Step(p)

Spec == Init /\ [][Next]_vars

\* one request at a time, the availability query included: a request is
\* accepted only while no other worker is inside a handler
Solo(p) == \A q \in Procs \ {p} : pc[q] = "idle"

StepSeq(p) ==
    \/ Solo(p) /\ \E v \in VehicleIds, r \in RequestRanges : create_booking(p, v, r[1], r[2], "g1")
    \/ check_vehicle_status(p)
    \/ check_vehicle_availability(p)
    \/ calculate_booking_price(p)
    \/ Solo(p) /\ \E b \in BookingKeys, g \in Guests : get_booking(p, b, g)
    \/ Solo(p) /\ \E b \in BookingKeys, g \in Guests : cancel_booking(p, b, g)
    \/ Solo(p) /\ \E b \in BookingKeys, g \in Guests : confirm_booking(p, b, g)
    \/ confirm_update(p)
    \/ confirm_fetch(p)
    \/ Solo(p) /\ \E b \in BookingKeys, g \in Guests, card_ok \in BOOLEAN :
                     pay_for_booking(p, b, g, card_ok)
    \/ mark_booking_paid_get(p)
    \/ mark_booking_paid(p)
    \/ store_payment(p)
    \/ Solo(p) /\ \E v \in VehicleIds, r \in RequestRanges : vehicle_availability(p, v, r[1], r[2])
    \/ vehicle_availability_bookings(p)
    \/ Return(p)

NextSeq == \E p \in Procs : StepSeq(p)

\* documents written before the dates became ISO strings: start_date and
\* end_date are native timestamps, which both availability checks convert
\* with .date()
LegacyDocs(b) ==
    {[d EXCEPT !.start_date = Timestamp(d.start_date.day),
               !.end_date = Timestamp(d.end_date.day)] : d \in SeedDocs(b)}

\* the store of Init, where b2 may also be a legacy document
InitSeq ==
    /\ vehicles \in InitVehicles
    /\ bookings \in InitBookings(SeedDocs("b1"), SeedDocs("b2") \cup LegacyDocs("b2"))
    /\ payments = [b \in DocIds |-> 0]
    /\ settings \in [ENABLE_PAYMENT_SIMULATOR : BOOLEAN]
    /\ sessions = [s \in SessionIds |-> NoSession]
    /\ InitProcs
    /\ ov = NullOv

SpecSeq == InitSeq /\ [][NextSeq]_vars

(***************************************************************************)
(* create_booking next to the two handlers that change a vehicle's status. *)
(***************************************************************************)
StepAdmin(p) ==
    \/ \E v \in VehicleIds, r \in RequestRanges : create_booking(p, v, r[1], r[2], "g1")
    \/ check_vehicle_status(p)
    \/ check_vehicle_availability(p)
    \/ calculate_booking_price(p)
    \/ \E v \in VehicleIds, st \in UpdateStatuses : update_vehicle(p, v, st)
    \/ update_vehicle_update(p)
    \/ update_vehicle_fetch(p)
    \/ \E v \in VehicleIds, hard_delete \in BOOLEAN : delete_vehicle(p, v, hard_delete)
    \/ delete_vehicle_write(p)
    \/ Return(p)

NextAdmin == \E p \in Procs : StepAdmin(p)

\* b1 in any lifecycle status, b2 cancelled
InitAdmin ==
    /\ vehicles \in InitVehicles
    /\ bookings \in InitBookings(SeedDocs("b1"), CancelledDocs("b2"))
    /\ payments = [b \in DocIds |-> 0]
    /\ settings = [ENABLE_PAYMENT_SIMULATOR |-> FALSE]
    /\ sessions = [s \in SessionIds |-> NoSession]
    /\ InitProcs
    /\ ov = NullOv

SpecAdmin == InitAdmin /\ [][NextAdmin]_vars

(***************************************************************************)
(* The chatbot on its own: two workers handle the messages of one session. *)
(* The session starts, if it exists at all, where a prefix of a            *)
(* conversation has led it.                                                *)
(***************************************************************************)
\* conversations that walk the funnel up to the confirmation prompt
Scripts ==
    {<<Msg("hi", 0, 0, 0), Msg("type_sedan", 0, 0, 0), Msg("number", n, 0, 0),
       Msg("dates", 0, r[1], r[2]), Msg("number", 1, 0, 0), Msg("number", 1, 0, 0),
       Msg("no", 0, 0, 0), Msg("cash", 0, 0, 0)>> :
       n \in 1..2, r \in {c \in ChatRanges : validate_dates(c[1], c[2])}}

\* the state and context a session reaches after the messages of a script
RECURSIVE RunFunnel(_)
RunFunnel(msgs) ==
    IF msgs = <<>>
    THEN Reply("idle", EmptyContext, FALSE)
    ELSE LET before == RunFunnel(SubSeq(msgs, 1, Len(msgs) - 1)) IN
           Dispatch(before.next_state, msgs[Len(msgs)], before.context)

InitChat ==
    /\ vehicles \in InitVehicles
    /\ bookings \in InitBookings(SeedDocs("b1"), CancelledDocs("b2"))
    /\ payments = [b \in DocIds |-> 0]
    /\ settings = [ENABLE_PAYMENT_SIMULATOR |-> FALSE]
    /\ sessions \in [SessionIds ->
                       {NoSession} \cup
                       {SessionDoc("g1", RunFunnel(SubSeq(sc, 1, k)).next_state,
                                   RunFunnel(SubSeq(sc, 1, k)).context) :
                          sc \in Scripts, k \in 0..8}]
    /\ InitProcs
    /\ ov = NullOv

StepChat(p) ==
    \/ \E m \in Messages, s \in SessionIds : handle_message(p, m, s, "g1")
    \/ chat_handle(p)
    \/ _update_session(p)
    \/ Return(p)

NextChat == \E p \in Procs : StepChat(p)

SpecChat == InitChat /\ [][NextChat]_vars

(***************************************************************************)
(* The overlap tests on their own: every pair of ranges with end > start.  *)
(***************************************************************************)
InitOverlap ==
    /\ vehicles = [v \in Vehicles |-> VehicleDoc("available", 100)]
    /\ bookings = [b \in DocIds |-> NoBooking]
    /\ payments = [b \in DocIds |-> 0]
    /\ settings = [ENABLE_PAYMENT_SIMULATOR |-> FALSE]
    /\ sessions = [s \in SessionIds |-> NoSession]
    /\ InitProcs
    /\ \E r1 \in Ranges, r2 \in Ranges :
         ov = [NullOv EXCEPT !.s1 = r1[1], !.e1 = r1[2], !.s2 = r2[1], !.e2 = r2[2]]

EvalPreCheck ==
    /\ ov.pre = "none"
    /\ ov' = [ov EXCEPT !.pre = IF PreCheckOverlap(ov.s1, ov.e1, ov.s2, ov.e2) THEN "overlap" ELSE "free"]
    /\ UNCHANGED <<storeVars, pc, req, loc, res, calls>>

EvalTxn ==
    /\ ov.txn = "none"
    /\ ov' = [ov EXCEPT !.txn = IF TxnOverlap(ov.s1, ov.e1, ov.s2, ov.e2) THEN "overlap" ELSE "free"]
    /\ UNCHANGED <<storeVars, pc, req, loc, res, calls>>

EvalStandalone ==
    /\ ov.std = "none"
    /\ ov' = [ov EXCEPT !.std = IF check_date_overlap(ov.s1, ov.e1, ov.s2, ov.e2) THEN "overlap" ELSE "free"]
    /\ UNCHANGED <<storeVars, pc, req, loc, res, calls>>

\* the same three tests with the two ranges exchanged
EvalPreCheckSwapped ==
    /\ ov.pre_swapped = "none"
    /\ ov' = [ov EXCEPT !.pre_swapped = IF PreCheckOverlap(ov.s2, ov.e2, ov.s1, ov.e1) THEN "overlap" ELSE "free"]
    /\ UNCHANGED <<storeVars, pc, req, loc, res, calls>>

EvalTxnSwapped ==
    /\ ov.txn_swapped = "none"
    /\ ov' = [ov EXCEPT !.txn_swapped = IF TxnOverlap(ov.s2, ov.e2, ov.s1, ov.e1) THEN "overlap" ELSE "free"]
    /\ UNCHANGED <<storeVars, pc, req, loc, res, calls>>

EvalStandaloneSwapped ==
    /\ ov.std_swapped = "none"
    /\ ov' = [ov EXCEPT !.std_swapped = IF check_date_overlap(ov.s2, ov.e2, ov.s1, ov.e1) THEN "overlap" ELSE "free"]
    /\ UNCHANGED <<storeVars, pc, req, loc, res, calls>>

NextOverlap ==
    \/ EvalPreCheck
    \/ EvalTxn
    \/ EvalStandalone
    \/ EvalPreCheckSwapped
    \/ EvalTxnSwapped
    \/ EvalStandaloneSwapped

SpecOverlap == InitOverlap /\ [][NextOverlap]_vars

\* the overlap tests on every pair of closed day intervals, the one-day
\* interval (start = end) included
ClosedRanges == {r \in Days \X Days : r[1] <= r[2]}

InitOverlapClosed ==
    /\ vehicles = [v \in Vehicles |-> VehicleDoc("available", 100)]
    /\ bookings = [b \in DocIds |-> NoBooking]
    /\ payments = [b \in DocIds |-> 0]
    /\ settings = [ENABLE_PAYMENT_SIMULATOR |-> FALSE]
    /\ sessions = [s \in SessionIds |-> NoSession]
    /\ InitProcs
    /\ \E r1 \in ClosedRanges, r2 \in ClosedRanges :
         ov = [NullOv EXCEPT !.s1 = r1[1], !.e1 = r1[2], !.s2 = r2[1], !.e2 = r2[2]]

SpecOverlapClosed == InitOverlapClosed /\ [][NextOverlap]_vars

(***************************************************************************)
(* Properties                                                              *)
(***************************************************************************)
Done(p, op) == pc[p] = "done" /\ req[p].op = op

Gated(v) == v \in Vehicles /\ vehicles[v].status \notin BookableVehicleStatuses

Bookable(v) == v \in Vehicles /\ vehicles[v].status \in BookableVehicleStatuses

Owns(g, b) == BookingOf(b).exists /\ (BookingOf(b).user_id = g \/ BookingOf(b).guest_id = g)

\* p has just taken the step that ends its request
Finishes(p) == pc[p] # "done" /\ pc'[p] = "done"

\* C1: of two create_booking calls for one bookable vehicle with overlapping
\* valid ranges, free of any earlier booking, exactly one ends in success (201)
\* and the other in Conflict (409).
C1_ExactlyOneSucceeds ==
    \A p \in Procs, q \in Procs :
       (/\ p # q
        /\ Done(p, "create_booking") /\ Done(q, "create_booking")
        /\ req[p].vehicle_id = req[q].vehicle_id
        /\ Bookable(req[p].vehicle_id)
        /\ validate_dates(req[p].start_date, req[p].end_date)
        /\ validate_dates(req[q].start_date, req[q].end_date)
        /\ check_date_overlap(req[p].start_date, req[p].end_date,
                              req[q].start_date, req[q].end_date)
        /\ conflicting_bookings(req[p].vehicle_id, req[p].start_date, req[p].end_date) = {}
        /\ conflicting_bookings(req[q].vehicle_id, req[q].start_date, req[q].end_date) = {})
       => {res[p].code, res[q].code} = {201, 409}

\* C2: no two blocking (pending, confirmed, active) bookings of one vehicle
\* overlap under the inclusive rule, in any reachable state.
C2_NoDoubleBooking == NoDoubleBooking(bookings)

\* C3: the pre-check, the in-transaction re-check and check_date_overlap give
\* the same verdict on every pair of ranges.
C3_SameVerdict ==
    (ov.pre # "none" /\ ov.txn # "none" /\ ov.std # "none")
       => (ov.pre = ov.txn /\ ov.txn = ov.std)

C5_SucceedsIffFree ==
    \A p \in Procs :
       (/\ Done(p, "create_booking")
        /\ Bookable(req[p].vehicle_id)
        /\ validate_dates(req[p].start_date, req[p].end_date))
       => (res[p].code = 201 <=>
             conflicting_bookings(req[p].vehicle_id, req[p].start_date, req[p].end_date) = {})

\* C6: for a vehicle in maintenance or inactive, every create_booking ends at
\* the date validation (422) or at the status gate (409, no conflicts) and no
\* step of it writes a booking; the availability query answers unavailable
\* with an empty conflict list.
C6_GatedVehicleUnbookable ==
    [][\A p \in Procs :
          (pc'[p] # pc[p] /\ Gated(req'[p].vehicle_id)) =>
             /\ req'[p].op = "create_booking" =>
                  /\ bookings' = bookings
                  /\ pc'[p] \in {"cb_check_vehicle", "done"}
                  /\ Finishes(p) =>
                       res'[p] = IF validate_dates(req'[p].start_date, req'[p].end_date)
                                 THEN Response(409, "Vehicle not available for selected dates", 0)
                                 ELSE Response(422, "Invalid dates", 0)
             /\ (req'[p].op = "vehicle_availability"
                 /\ validate_dates(req'[p].start_date, req'[p].end_date)) =>
                  /\ bookings' = bookings
                  /\ Finishes(p)
                  /\ res'[p] = Response(200, "unavailable", 0)]_vars

C6_Witness ==
    \E p \in Procs :
       /\ Done(p, "create_booking")
       /\ Gated(req[p].vehicle_id)
       /\ vehicles[req[p].vehicle_id].status = "maintenance"
       /\ res[p].code = 409

\* C7: the rejection of create_booking by the vehicle's status and its
\* rejection by a date conflict are different error kinds.
C7_DistinctErrorKinds ==
    \A p \in Procs, q \in Procs :
       (/\ Done(p, "create_booking") /\ loc[p].note = "vehicle_status"
        /\ Done(q, "create_booking") /\ loc[q].note = "date_conflict")
       => res[p].code # res[q].code

\* C8: once cancel_booking(B) has answered the owner of B, B no longer blocks
\* its vehicle, so a create_booking that only B stood against can succeed.
C8_CancelUnblocks ==
    \A p \in Procs :
       (Done(p, "cancel_booking") /\ Owns(req[p].guest_id, req[p].booking_id))
       => BookingOf(req[p].booking_id).status \notin BlockingStatuses

C10_CancelRule ==
    [][\A p \in Procs :
          (/\ pc[p] = "idle"
           /\ req'[p].op = "cancel_booking"
           /\ Owns(req'[p].guest_id, req'[p].booking_id))
          => IF bookings[req'[p].booking_id].status \in {"cancelled", "completed"}
             THEN res'[p].code >= 400 /\ bookings' = bookings
             ELSE bookings'[req'[p].booking_id].status = "cancelled"]_vars

\* the lifecycle of a booking: pending -> confirmed -> active -> completed,
\* cancelled from pending, confirmed or active
LifecycleEdges ==
    {<<"pending", "confirmed">>, <<"confirmed", "active">>, <<"active", "completed">>,
     <<"pending", "cancelled">>, <<"confirmed", "cancelled">>, <<"active", "cancelled">>}

\* C11: every change of a booking's status made by cancel_booking,
\* confirm_booking or mark_booking_paid follows an edge of the lifecycle; no
\* step moves a booking backwards or out of completed.
C11_LifecycleEdges ==
    [][\A b \in DocIds :
          (bookings[b].exists /\ bookings'[b].status # bookings[b].status)
             => <<bookings[b].status, bookings'[b].status>> \in LifecycleEdges]_vars

\* C12: a create_booking call that returns a failure (validation, vehicle not
\* found, conflict, price, infrastructure) has written nothing: every step of
\* such a call, the failing one included, leaves the bookings collection as it
\* was.  No call of create_booking ends otherwise, so this covers every step
\* of the handler.
C12_FailureWritesNothing ==
    [][\A p \in Procs :
          (/\ req'[p].op = "create_booking"
           /\ pc'[p] # pc[p]
           /\ (Finishes(p) => res'[p].code >= 400))
          => bookings' = bookings]_vars

C12_Witness ==
    \E p \in Procs :
       /\ Done(p, "create_booking")
       /\ res[p] = Response(500, "Failed to create booking", 0)
       /\ loc[p].note = "AttributeError"
       /\ loc[p].price > 0

\* C13: create_booking with end_date <= start_date or start_date before today
\* is rejected with a validation error in the step that accepts the request,
\* before the first read of the store (the vehicle read) and with the store
\* untouched.
C13_ValidationFirst ==
    [][\A p \in Procs :
          (/\ pc[p] = "idle"
           /\ req'[p].op = "create_booking"
           /\ (req'[p].end_date <= req'[p].start_date \/ req'[p].start_date < Today))
          => /\ pc'[p] = "done"
             /\ res'[p] = Response(422, "Invalid dates", 0)
             /\ storeVars' = storeVars]_vars

C13_Witness ==
    \E p \in Procs, q \in Procs :
       /\ Done(p, "create_booking") /\ Done(q, "create_booking")
       /\ req[p].end_date <= req[p].start_date /\ req[p].start_date >= Today
       /\ req[q].start_date < Today /\ req[q].end_date > req[q].start_date
       /\ res[p].code = 422 /\ res[q].code = 422

C15_OverlapSymmetric ==
    /\ (ov.std # "none" /\ ov.std_swapped # "none") => ov.std = ov.std_swapped
    /\ (ov.pre # "none" /\ ov.pre_swapped # "none") => ov.pre = ov.pre_swapped
    /\ (ov.txn # "none" /\ ov.txn_swapped # "none") => ov.txn = ov.txn_swapped

C15_Witness ==
    /\ ov.s1 < ov.e1 /\ ov.e1 = ov.s2 /\ ov.s2 < ov.e2
    /\ ov.std = "overlap" /\ ov.std_swapped = "overlap"
    /\ ov.pre = "overlap" /\ ov.pre_swapped = "overlap"
    /\ ov.txn = "free" /\ ov.txn_swapped = "free"

\* C16: check_date_overlap(start1, end1, start2, end2) is true exactly when
\* the closed day intervals [start1, end1] and [start2, end2], start <= end,
\* share at least one calendar day.
C16_OverlapIffSharedDay ==
    ov.std # "none" =>
       (ov.std = "overlap" <=>
          \E d \in Days : ov.s1 <= d /\ d <= ov.e1 /\ ov.s2 <= d /\ d <= ov.e2)

C16_Witness ==
    /\ ov.s1 < ov.e1 /\ ov.s2 = ov.e2 /\ ov.s2 = ov.e1
    /\ ov.std = "overlap"

\* C17: get_booking, cancel_booking and confirm_booking answer a requester who
\* does not own the (existing) booking with NotFound (404), never with 403,
\* exactly as they answer for an id that does not exist.
C17_NonOwnerGetsNotFound ==
    \A p \in Procs :
       (/\ pc[p] = "done"
        /\ req[p].op \in {"get_booking", "cancel_booking", "confirm_booking"}
        /\ BookingOf(req[p].booking_id).exists
        /\ ~Owns(req[p].guest_id, req[p].booking_id))
       => res[p] = Response(404, "Booking not found", 0)

\* C18: cancel_booking or confirm_booking asked by someone who does not own
\* the booking ends with an error in the step that reads the booking and
\* leaves every booking document as it was.
C18_NonOwnerChangesNothing ==
    [][\A p \in Procs :
          (/\ pc[p] = "idle"
           /\ req'[p].op \in {"cancel_booking", "confirm_booking"}
           /\ BookingOf(req'[p].booking_id).exists
           /\ ~Owns(req'[p].guest_id, req'[p].booking_id))
          => /\ pc'[p] = "done"
             /\ res'[p].code >= 400
             /\ bookings' = bookings]_vars

C18_Witness ==
    \E p \in Procs, q \in Procs :
       /\ Done(p, "cancel_booking") /\ Done(q, "confirm_booking")
       /\ req[p].booking_id = req[q].booking_id
       /\ BookingOf(req[p].booking_id).status = "pending"
       /\ ~Owns(req[p].guest_id, req[p].booking_id)
       /\ ~Owns(req[q].guest_id, req[q].booking_id)
       /\ res[p].code >= 400 /\ res[q].code >= 400

Identity(d) ==
    <<d.exists, d.user_id, d.guest_id, d.vehicle_id, d.start_date, d.end_date,
      d.total_price>>

\* C20: once a booking exists, no step of cancel_booking, confirm_booking or
\* mark_booking_paid changes its id, owner, vehicle_id, start_date, end_date
\* or total_price; only status and payment_status change.
C20_OnlyStatusFieldsChange ==
    [][\A b \in DocIds :
          bookings[b].exists => Identity(bookings'[b]) = Identity(bookings[b])]_vars

C20_Witness ==
    \E p \in Procs, b \in BookingIds :
       /\ pc[p] = "pay_store"
       /\ req[p].booking_id = b
       /\ bookings[b].status = "confirmed"
       /\ bookings[b].payment_status = "paid"
       /\ Identity(bookings[b]) \in {Identity(d) : d \in SeedDocs(b)}

C26_TxnImpliesPreCheck ==
    (ov.txn = "overlap" /\ ov.pre # "none") => ov.pre = "overlap"

\* a pair of ranges that both tests were applied to and both call overlapping
C26_Witness ==
    /\ ov.txn = "overlap"
    /\ ov.pre = "overlap"
    /\ ov.s1 < ov.e1 /\ ov.s2 < ov.e2

\* C27: a booking is paid at most once: under any interleaving of concurrent
\* pay_for_booking requests for one booking, at most one payment record with
\* status success is stored for it.
C27_PaidAtMostOnce ==
    \A b \in DocIds : payments[b] <= 1

\* C28: ownership is recognised uniformly: the creator of a booking, stored
\* under user_id by the REST path and under guest_id by the chatbot, is not
\* turned away by the ownership check of confirm_booking or of
\* pay_for_booking.
C28_CreatorPassesOwnership ==
    [][\A p \in Procs :
          (/\ pc[p] = "idle"
           /\ req'[p].op \in {"confirm_booking", "pay_for_booking"}
           /\ Owns(req'[p].guest_id, req'[p].booking_id)
           /\ req'[p].op = "pay_for_booking" => settings.ENABLE_PAYMENT_SIMULATOR)
          => ~(pc'[p] = "done" /\ res'[p].code \in {403, 404, 500})]_vars

\* the booking that an earlier create_booking with the values of request r
\* has committed
Committed(store, b, r) ==
    /\ store[b].exists
    /\ store[b].user_id = r.guest_id
    /\ store[b].vehicle_id = r.vehicle_id
    /\ store[b].start_date = isoformat(r.start_date)
    /\ store[b].end_date = isoformat(r.end_date)
    /\ store[b].status \in BlockingStatuses

\* C29: a client that repeats the whole create_booking flow after a commit
\* whose outcome it did not learn creates no second booking: the repeated
\* request ends in Conflict (409) and the store holds one booking for it.
C29_RetryEndsInConflict ==
    [][\A p \in Procs :
          (/\ req'[p].op = "create_booking"
           /\ Finishes(p)
           /\ \E b \in DocIds : Committed(bookings, b, req'[p]))
          => /\ res'[p].code = 409
             /\ Cardinality({b \in DocIds : Committed(bookings', b, req'[p])}) = 1]_vars

\* the repeated request has been answered and its first attempt is in the store
C29_Witness ==
    \E p \in Procs :
       /\ Done(p, "create_booking")
       /\ res[p].code = 409
       /\ loc[p].note = "date_conflict"
       /\ \E b \in DocIds : Committed(bookings, b, req[p]) /\ bookings[b].status = "pending"

====
